---- MODULE Spec2Model ----
(***************************************************************************)
(* A model of the blackjack rules engine of src/blackjack_engine.py:       *)
(* the shoe (Deck), the hands (Hand) and the round controller              *)
(* (BlackjackGame).                                                        *)
(*                                                                         *)
(* Money is kept in tenths of a currency unit wherever the code multiplies *)
(* a bet by 0.5, 1.2 or 1.5, so that every amount stays an integer: a bet  *)
(* b is the integer b, a result r of resolve_hand is the integer 10*r.     *)
(***************************************************************************)
EXTENDS Integers, Sequences, FiniteSets, TLC

VARIABLES
    cards,               \* Deck.cards: the live shoe, dealt from its end
    discards,            \* Deck.discards
    cut_card_position,   \* Deck.cut_card_position
    player_hands,        \* BlackjackGame.player_hands
    dealer_hand,         \* BlackjackGame.dealer_hand
    current_hand_index,  \* BlackjackGame.current_hand_index (0-based)
    rules,               \* BlackjackGame.rules
    pc,                  \* "idle", or "dealer" inside play_dealer_hand's loop
    op,                  \* the last operation called
    outcome,             \* how it ended: "ok", or the exception it raised
    arg,                 \* its argument: place_bet's amount, the place in
                         \* player_hands of the hand given to resolve_hand,
                         \* or a record of the arguments of a strategy,
                         \* counter or betting call
    ret,                 \* what the last call returned: resolve_hand's
                         \* amount in tenths, the answer of a strategy,
                         \* counter or betting call, and 0 otherwise
    deals,               \* successful deal_card calls since the last reset
    rounds,              \* new_round calls so far
    running_count,       \* HiLoCounter.running_count of the simulator
    cards_seen           \* HiLoCounter.cards_seen of the simulator

vars == <<cards, discards, cut_card_position, player_hands, dealer_hand,
          current_hand_index, rules, pc, op, outcome, arg, ret, deals,
          rounds, running_count, cards_seen>>

(***************************************************************************)
(* Bounds of the model.                                                    *)
(***************************************************************************)
MaxHandLen == 4      \* cards a lone Hand is grown to (SpecHand)

MaxResolveLen == 3   \* cards of the lone hands resolve_hand is applied to

MaxCountLen == 3     \* cards of the lone hands a deviation is asked for

MaxTrueCount == 6    \* true counts asked about run from -6 to 6, in halves

MaxRounds == 1       \* new_round calls in one behaviour

MaxCursor == 2       \* current_hand_index is not pushed beyond this

MaxHit == 3          \* hit() is not called on a hand of this many cards (Spec)

MaxStrategyLen == 3  \* cards of the hands the strategy is asked about

MaxSimRounds == 5    \* rounds of one session of the simulator

(***************************************************************************)
(* Cards.                                                                  *)
(***************************************************************************)
Ranks == <<"2", "3", "4", "5", "6", "7", "8", "9", "10", "J", "Q", "K", "A">>

Suits == <<"H", "D", "C", "S">>

RankSet == {Ranks[i] : i \in 1..Len(Ranks)}

SuitSet == {Suits[i] : i \in 1..Len(Suits)}

Card(r, s) == [rank |-> r, suit |-> s]

\* int(self.rank) for the ranks '2'..'10'
RankInt(r) ==
    CASE r = "2" -> 2 [] r = "3" -> 3 [] r = "4" -> 4 [] r = "5" -> 5
      [] r = "6" -> 6 [] r = "7" -> 7 [] r = "8" -> 8 [] r = "9" -> 9
      [] r = "10" -> 10

CardValue(c) ==
    IF c.rank \in {"J", "Q", "K"} THEN 10
    ELSE IF c.rank = "A" THEN 11
    ELSE RankInt(c.rank)

(***************************************************************************)
(* Hands.                                                                  *)
(***************************************************************************)
NewHand ==
    [cards |-> <<>>, bet |-> 0, is_split |-> FALSE, is_doubled |-> FALSE,
     is_surrendered |-> FALSE, is_insured |-> FALSE]

AddCard(h, c) == [h EXCEPT !.cards = Append(@, c)]

\* the first loop of Hand.value and of Hand.is_soft: every Ace counted as 11
RawTotal(cs) ==
    LET total[n \in 0..Len(cs)] ==
            IF n = 0 THEN 0
            ELSE total[n - 1]
                 + (IF cs[n].rank = "A" THEN 11 ELSE CardValue(cs[n]))
    IN  total[Len(cs)]

AceCount(cs) == Cardinality({i \in 1..Len(cs) : cs[i].rank = "A"})

\* a loop that takes 10 off at most once
AdjustAcesOnce(total, aces) ==
    IF total > 21 /\ aces > 0 THEN total - 10 ELSE total

\* a loop that takes 11 off for an Ace
RECURSIVE AdjustAcesByEleven(_, _)
AdjustAcesByEleven(total, aces) ==
    IF total > 21 /\ aces > 0
    THEN AdjustAcesByEleven(total - 11, aces - 1)
    ELSE total

\* while total > 21 and aces > 0: total -= 10; aces -= 1
RECURSIVE AdjustAces(_, _)
AdjustAces(total, aces) ==
    IF total > 21 /\ aces > 0 THEN AdjustAces(total - 10, aces - 1) ELSE total

Value(h) == AdjustAces(RawTotal(h.cards), AceCount(h.cards))

IsSoft(h) == AceCount(h.cards) > 0 /\ RawTotal(h.cards) <= 21

IsBlackjack(h) == Len(h.cards) = 2 /\ Value(h) = 21

IsBust(h) == Value(h) > 21

IsPair(h) ==
    IF Len(h.cards) # 2 THEN FALSE ELSE h.cards[1].rank = h.cards[2].rank

\* a hand that a split made may be split again
CanSplitAgain(h) == IsPair(h)

CanSplit(h) == IsPair(h) /\ ~h.is_split

CanDouble(h) == Len(h.cards) = 2 /\ ~h.is_doubled

(***************************************************************************)
(* The shoe.                                                               *)
(***************************************************************************)
DeckSize == Len(Ranks) * Len(Suits)

\* Deck.reset before the shuffle: for each deck, for each rank, for each suit
FullDeck(n) ==
    [k \in 1..(DeckSize * n) |->
        Card(Ranks[(((k - 1) % DeckSize) \div Len(Suits)) + 1],
             Suits[((k - 1) % Len(Suits)) + 1])]

RankIndex(r) == CHOOSE i \in 1..Len(Ranks) : Ranks[i] = r

\* how many of top[1..j-1] have the rank of top[j]
Earlier(top, j) == Cardinality({i \in 1..(j - 1) : top[i] = top[j]})

\* the place in FullDeck(n) of the m-th (from 0) card of rank r
PlaceOf(r, m) ==
    ((m \div Len(Suits)) * DeckSize) + ((RankIndex(r) - 1) * Len(Suits))
      + (m % Len(Suits)) + 1

\* a sequence of ranks the shoe of n decks can deal
Dealable(top, n) ==
    \A j \in 1..Len(top) : Earlier(top, j) < Len(Suits) * n

\* seq[lo..hi] without the elements at places, by halves (a shoe of six
\* decks is 312 cards long)
RECURSIVE WithoutIn(_, _, _, _)
WithoutIn(seq, places, lo, hi) ==
    IF lo > hi THEN <<>>
    ELSE IF lo = hi THEN (IF lo \in places THEN <<>> ELSE <<seq[lo]>>)
    ELSE LET mid == (lo + hi) \div 2
         IN  WithoutIn(seq, places, lo, mid)
             \o WithoutIn(seq, places, mid + 1, hi)

Without(seq, places, i) == WithoutIn(seq, places, i, Len(seq))

\* random.shuffle: one permutation of the full shoe, the one that deals the
\* ranks of top first (cards are dealt from the end) and leaves the other
\* cards in the order reset built them
Shuffled(n, top) ==
    LET full   == FullDeck(n)
        place  == [j \in 1..Len(top) |-> PlaceOf(top[j], Earlier(top, j))]
        places == {place[j] : j \in 1..Len(top)}
    IN  Without(full, places, 1)
        \o [j \in 1..Len(top) |-> full[place[Len(top) + 1 - j]]]

\* self.cut_card_position = int(len(self.cards) * 0.25)
CutCardPosition(cs) == (Len(cs) * 25) \div 100

CardsRemaining == Len(cards)

\* a test that lets the shoe run one card below the cut card
NeedsShuffleStrict == Len(cards) < cut_card_position

\* return len(self.cards) <= self.cut_card_position
NeedsShuffle == Len(cards) <= cut_card_position

\* deal_card, k times in a row: the shoe left, the cards dealt in order, and
\* the discard pile afterwards
ShoeAfter(cs, k) == SubSeq(cs, 1, Len(cs) - k)

DealtCards(cs, k) == [i \in 1..k |-> cs[Len(cs) + 1 - i]]

DiscardsKept(ds, cs, k) == ds

DiscardsAfter(ds, cs, k) == ds \o DealtCards(cs, k)

(***************************************************************************)
(* Rules.  blackjack_payout is in tenths (15 for 3:2, 12 for 6:5) and      *)
(* penetration in hundredths.                                              *)
(***************************************************************************)
GameRules(n, h17, payout) ==
    [num_decks |-> n, dealer_hits_soft_17 |-> h17, blackjack_payout |-> payout,
     can_surrender |-> TRUE, can_double_after_split |-> TRUE,
     can_resplit_aces |-> FALSE, max_splits |-> 3, min_bet |-> 10,
     max_bet |-> 500, penetration |-> 75]

\* the rules games are built with: S17 with 3:2 (the defaults of the code
\* but for the number of decks), H17 with 6:5, and a shoe of two decks
RulesS17 == GameRules(1, FALSE, 15)

RulesH17 == GameRules(1, TRUE, 12)

RulesTwoDecks == GameRules(2, FALSE, 15)

(***************************************************************************)
(* The round controller.  An operation that raises leaves outcome at the   *)
(* exception's name; what it changed before raising stays changed.         *)
(***************************************************************************)
game == <<cards, discards, cut_card_position, player_hands, dealer_hand,
          current_hand_index, rules>>

\* the HiLoCounter a FullGameSimulator holds; no other caller has one
counter == <<running_count, cards_seen>>

HasCurrentHand == current_hand_index < Len(player_hands)

CurrentHand == player_hands[current_hand_index + 1]

IsRoundComplete == current_hand_index >= Len(player_hands)

Called(name, how) ==
    op' = name /\ outcome' = how /\ pc' = "idle" /\ arg' = 0 /\ ret' = 0

\* the call raised before it changed anything
Raised(name, exc) ==
    /\ Called(name, exc)
    /\ UNCHANGED <<game, counter, deals, rounds>>

\* k cards leave the shoe
Deal(k) ==
    /\ cards' = ShoeAfter(cards, k)
    /\ discards' = DiscardsAfter(discards, cards, k)
    /\ deals' = deals + k

\* BlackjackGame.__init__ with Deck.__init__ and its reset
Constructed(r, top) ==
    /\ rules = r
    /\ running_count = 0 /\ cards_seen = 0
    /\ cards = Shuffled(r.num_decks, top)
    /\ discards = <<>>
    /\ cut_card_position = CutCardPosition(cards)
    /\ player_hands = <<>>
    /\ dealer_hand = NewHand
    /\ current_hand_index = 0
    /\ pc = "idle" /\ op = "init" /\ outcome = "ok" /\ arg = 0 /\ ret = 0
    /\ deals = 0 /\ rounds = 0

\* new_round, for at most max rounds, a reset shuffling to one of tops
NewRoundWithin(tops, max) ==
    /\ pc = "idle"
    /\ rounds < max
    /\ IF NeedsShuffle
       THEN \E top \in tops :
              /\ Dealable(top, rules.num_decks)
              /\ cards' = Shuffled(rules.num_decks, top)
              /\ cut_card_position' = CutCardPosition(cards')
              /\ discards' = <<>>
              /\ deals' = 0
       ELSE UNCHANGED <<cards, discards, cut_card_position, deals>>
    /\ player_hands' = <<NewHand>>
    /\ dealer_hand' = NewHand
    /\ current_hand_index' = 0
    /\ rounds' = rounds + 1
    /\ Called("new_round", "ok")
    /\ UNCHANGED <<rules, counter>>

NewRoundFrom(tops) == NewRoundWithin(tops, MaxRounds)

\* no card has been dealt to the first player hand or to the dealer
FreshHands ==
    /\ dealer_hand.cards = <<>>
    /\ player_hands # <<>> => player_hands[1].cards = <<>>

\* player, dealer, player, dealer; with fewer than 4 cards left the cards
\* that are there are dealt and the next deal_card raises.  The callers deal
\* once per round: the model calls it on fresh hands only.
\* of the k cards d dealt in order, those a deal of two and two gives the player
ToPlayerFirstTwo(d, k) ==
    (IF k >= 1 THEN <<d[1]>> ELSE <<>>) \o (IF k >= 2 THEN <<d[2]>> ELSE <<>>)

\* of the k cards d dealt in order, those added to player_hands[0]
ToPlayer(d, k) ==
    (IF k >= 1 THEN <<d[1]>> ELSE <<>>) \o (IF k >= 3 THEN <<d[3]>> ELSE <<>>)

\* of the k cards d dealt in order, those added to dealer_hand
ToDealer(d, k) ==
    (IF k >= 2 THEN <<d[2]>> ELSE <<>>) \o (IF k >= 4 THEN <<d[4]>> ELSE <<>>)

DealInitialCards ==
    /\ pc = "idle"
    /\ FreshHands
    /\ IF player_hands = <<>>
       THEN Raised("deal_initial_cards", "IndexError")
       ELSE LET k == IF Len(cards) < 4 THEN Len(cards) ELSE 4
                d == DealtCards(cards, k)
            IN  /\ Deal(k)
                /\ player_hands' =
                     [player_hands EXCEPT ![1].cards = @ \o ToPlayer(d, k)]
                /\ dealer_hand' =
                     [dealer_hand EXCEPT !.cards = @ \o ToDealer(d, k)]
                /\ Called("deal_initial_cards",
                          IF k = 4 THEN "ok" ELSE "Exception")
                /\ UNCHANGED <<cut_card_position, current_hand_index, rules,
                               counter, rounds>>

\* amounts a caller offers as a bet: below min_bet, within range, above max_bet
BetAmounts == {5, 100, 600}

\* a test that also refuses the two limits
BetOutOfRangeStrict(amount) ==
    amount <= rules.min_bet \/ amount >= rules.max_bet

\* if amount < self.rules.min_bet or amount > self.rules.max_bet
BetOutOfRange(amount) ==
    amount < rules.min_bet \/ amount > rules.max_bet

PlaceBet(amount) ==
    /\ pc = "idle"
    /\ op' = "place_bet" /\ arg' = amount /\ pc' = "idle" /\ ret' = 0
    /\ IF BetOutOfRange(amount)
       THEN outcome' = "ValueError" /\ UNCHANGED player_hands
       ELSE IF player_hands = <<>>
       THEN outcome' = "IndexError" /\ UNCHANGED player_hands
       ELSE /\ outcome' = "ok"
            /\ player_hands' = [player_hands EXCEPT ![1].bet = amount]
    /\ UNCHANGED <<cards, discards, cut_card_position, dealer_hand,
                   current_hand_index, rules, counter, deals, rounds>>

\* hit() on a current hand of fewer than cap cards
HitUpTo(cap) ==
    /\ pc = "idle"
    /\ IF ~HasCurrentHand
       THEN Raised("hit", "IndexError")
       ELSE /\ Len(CurrentHand.cards) < cap
            /\ IF cards = <<>>
               THEN Raised("hit", "Exception")
               ELSE /\ Deal(1)
                    /\ player_hands' =
                         [player_hands EXCEPT ![current_hand_index + 1] =
                             AddCard(@, DealtCards(cards, 1)[1])]
                    /\ Called("hit", "ok")
                    /\ UNCHANGED <<cut_card_position, dealer_hand,
                                   current_hand_index, rules, counter, rounds>>

Stand ==
    /\ pc = "idle"
    /\ current_hand_index < MaxCursor
    /\ current_hand_index' = current_hand_index + 1
    /\ Called("stand", "ok")
    /\ UNCHANGED <<cards, discards, cut_card_position, player_hands,
                   dealer_hand, rules, counter, deals, rounds>>

DoubleDown ==
    /\ pc = "idle"
    /\ IF ~HasCurrentHand
       THEN Raised("double_down", "IndexError")
       ELSE IF ~CanDouble(CurrentHand)
       THEN Raised("double_down", "ValueError")
       ELSE LET doubled == [CurrentHand EXCEPT !.bet = @ * 2,
                                               !.is_doubled = TRUE]
            IN  IF cards = <<>>
                THEN \* hand.bet and hand.is_doubled are set, deal_card raises
                     /\ player_hands' =
                          [player_hands EXCEPT ![current_hand_index + 1] =
                              doubled]
                     /\ Called("double_down", "Exception")
                     /\ UNCHANGED <<cards, discards, cut_card_position,
                                    dealer_hand, current_hand_index, rules,
                                    counter, deals, rounds>>
                ELSE /\ Deal(1)
                     /\ player_hands' =
                          [player_hands EXCEPT ![current_hand_index + 1] =
                              AddCard(doubled, DealtCards(cards, 1)[1])]
                     /\ current_hand_index' = current_hand_index + 1
                     /\ Called("double_down", "ok")
                     /\ UNCHANGED <<cut_card_position, dealer_hand, rules,
                                    counter, rounds>>

\* an insertion one place early
InsertBefore(seq, i, x) ==
    SubSeq(seq, 1, i - 1) \o <<x>> \o SubSeq(seq, i, Len(seq))

\* an insertion that is lost
InsertDropped(seq, i, x) == seq

\* list.insert(i, x) for 0 <= i <= len
Insert(seq, i, x) == SubSeq(seq, 1, i) \o <<x>> \o SubSeq(seq, i + 1, Len(seq))

Split ==
    /\ pc = "idle"
    /\ IF ~HasCurrentHand
       THEN Raised("split", "IndexError")
       ELSE IF ~CanSplit(CurrentHand)
       THEN Raised("split", "ValueError")
       ELSE IF Len(player_hands) >= rules.max_splits + 1
       THEN Raised("split", "ValueError")
       ELSE LET hand == CurrentHand
                k == IF Len(cards) < 2 THEN Len(cards) ELSE 2
                d == DealtCards(cards, k)
                new_hand == [NewHand EXCEPT
                                !.cards = <<hand.cards[2]>>
                                          \o (IF k >= 2 THEN <<d[2]>> ELSE <<>>),
                                !.bet = hand.bet,
                                !.is_split = TRUE]
                old_hand == [hand EXCEPT
                                !.cards = <<hand.cards[1]>>
                                          \o (IF k >= 1 THEN <<d[1]>> ELSE <<>>),
                                !.is_split = TRUE]
                kept == [player_hands EXCEPT ![current_hand_index + 1] =
                            old_hand]
            IN  /\ Deal(k)
                /\ player_hands' =
                     IF k = 2
                     THEN Insert(kept, current_hand_index + 1, new_hand)
                     ELSE kept  \* deal_card raised: new_hand is never inserted
                /\ Called("split", IF k = 2 THEN "ok" ELSE "Exception")
                /\ UNCHANGED <<cut_card_position, dealer_hand,
                               current_hand_index, rules, counter, rounds>>

Surrender ==
    /\ pc = "idle"
    /\ IF ~HasCurrentHand
       THEN Raised("surrender", "IndexError")
       ELSE IF Len(CurrentHand.cards) # 2
       THEN Raised("surrender", "ValueError")
       ELSE /\ player_hands' =
                 [player_hands EXCEPT ![current_hand_index + 1].is_surrendered =
                     TRUE]
            /\ current_hand_index' = current_hand_index + 1
            /\ Called("surrender", "ok")
            /\ UNCHANGED <<cards, discards, cut_card_position, dealer_hand,
                           rules, counter, deals, rounds>>

Insure ==
    /\ pc = "idle"
    /\ IF Len(dealer_hand.cards) # 2 \/ dealer_hand.cards[1].rank # "A"
       THEN Raised("insure", "ValueError")
       ELSE IF ~HasCurrentHand
       THEN Raised("insure", "IndexError")
       ELSE /\ player_hands' =
                 [player_hands EXCEPT ![current_hand_index + 1].is_insured =
                     TRUE]
            /\ Called("insure", "ok")
            /\ UNCHANGED <<cards, discards, cut_card_position, dealer_hand,
                           current_hand_index, rules, counter, deals, rounds>>

\* the tests of play_dealer_hand's loop that end it
DealerStandsBustUnchecked(h, h17) ==
    \/ (Value(h) > 17 /\ Value(h) <= 21)
    \/ (Value(h) = 17 /\ ~(h17 /\ IsSoft(h)))

DealerStands(h, h17) ==
    \/ Value(h) > 21
    \/ Value(h) > 17
    \/ (Value(h) = 17 /\ ~(h17 /\ IsSoft(h)))

\* the call of play_dealer_hand: control enters its loop
PlayDealerHand ==
    /\ pc = "idle"
    /\ pc' = "dealer"
    /\ op' = "play_dealer_hand" /\ outcome' = "running"
    /\ arg' = 0 /\ ret' = 0
    /\ UNCHANGED <<game, counter, deals, rounds>>

\* one pass of the loop: break, or deal one card to the dealer
DealerStep ==
    /\ pc = "dealer"
    /\ IF DealerStands(dealer_hand, rules.dealer_hits_soft_17)
       THEN Raised("play_dealer_hand", "ok")
       ELSE IF cards = <<>>
       THEN Raised("play_dealer_hand", "Exception")
       ELSE /\ Deal(1)
            /\ dealer_hand' = AddCard(dealer_hand, DealtCards(cards, 1)[1])
            /\ UNCHANGED <<cut_card_position, player_hands,
                           current_hand_index, rules, counter, pc, op,
                           outcome, arg, ret, rounds>>

\* a player blackjack that is paid whatever the dealer holds
BlackjackResultNoPush(hand, d, payout) == hand.bet * payout

\* the player has a blackjack
BlackjackResult(hand, d, payout) ==
    IF IsBlackjack(d) THEN 0 ELSE hand.bet * payout

\* a dealer blackjack that takes the whole bet, insured or not
DealerBlackjackResultUninsured(hand) == -(hand.bet * 10)

\* the dealer has a blackjack: insurance pays 2:1 on half the bet
DealerBlackjackResult(hand) ==
    IF hand.is_insured
    THEN -(hand.bet * 10) + (hand.bet * 5)
    ELSE -(hand.bet * 10)

CompareResult(hand, d) ==
    IF Value(hand) > Value(d) THEN hand.bet * 10
    ELSE IF Value(hand) < Value(d) THEN -(hand.bet * 10)
    ELSE 0

\* resolve_hand with the dealer's bust looked at before the player's
ResolveDealerBustFirst(hand, d, payout) ==
    IF hand.is_surrendered THEN -(hand.bet * 5)
    ELSE IF Value(d) > 21 THEN hand.bet * 10
    ELSE IF Value(hand) > 21 THEN -(hand.bet * 10)
    ELSE IF IsBlackjack(hand) THEN BlackjackResult(hand, d, payout)
    ELSE IF IsBlackjack(d) THEN DealerBlackjackResult(hand)
    ELSE CompareResult(hand, d)

\* resolve_hand with the dealer's blackjack looked at before the player's bust
ResolveDealerBlackjackFirst(hand, d, payout) ==
    IF hand.is_surrendered THEN -(hand.bet * 5)
    ELSE IF IsBlackjack(hand) THEN BlackjackResult(hand, d, payout)
    ELSE IF IsBlackjack(d) THEN DealerBlackjackResult(hand)
    ELSE IF Value(hand) > 21 THEN -(hand.bet * 10)
    ELSE IF Value(d) > 21 THEN hand.bet * 10
    ELSE CompareResult(hand, d)

\* resolve_hand(hand) against dealer hand d, in tenths
Resolve(hand, d, payout) ==
    IF hand.is_surrendered THEN -(hand.bet * 5)
    ELSE IF Value(hand) > 21 THEN -(hand.bet * 10)
    ELSE IF IsBlackjack(hand) THEN BlackjackResult(hand, d, payout)
    ELSE IF Value(d) > 21 THEN hand.bet * 10
    ELSE IF IsBlackjack(d) THEN DealerBlackjackResult(hand)
    ELSE CompareResult(hand, d)

\* resolve_hand on the i-th player hand
ResolveHand(i) ==
    /\ pc = "idle"
    /\ i \in 1..Len(player_hands)
    /\ op' = "resolve_hand" /\ outcome' = "ok" /\ pc' = "idle"
    /\ arg' = i
    /\ ret' = Resolve(player_hands[i], dealer_hand, rules.blackjack_payout)
    /\ UNCHANGED <<game, counter, deals, rounds>>

(***************************************************************************)
(* Spec: the engine under any sequence of calls.                           *)
(***************************************************************************)
\* the shuffles of Spec, each given by the ranks it deals first: a pair of
\* eights against a dealer blackjack with the Ace up, a hard 16 against a
\* hard 16, and a pair of fives against a dealer pair of Aces
TopEights == <<"8", "A", "8", "K", "3", "10", "5">>

TopSixteen == <<"10", "9", "6", "7", "K", "2">>

TopFives == <<"5", "A", "5", "A", "5", "4">>

GameTops == {TopEights, TopSixteen, TopFives}

\* the games of Spec: the rules and the first shuffle of each
GameSetups ==
    { <<RulesS17, TopEights>>, <<RulesS17, TopSixteen>>,
      <<RulesH17, TopFives>>, <<RulesTwoDecks, TopEights>> }

Init == \E g \in GameSetups : Constructed(g[1], g[2])

NewRound == NewRoundFrom(GameTops)

Hit == HitUpTo(MaxHit)

Next ==
    \/ NewRound
    \/ \E amount \in BetAmounts : PlaceBet(amount)
    \/ DealInitialCards
    \/ Hit
    \/ Stand
    \/ DoubleDown
    \/ Split
    \/ Surrender
    \/ Insure
    \/ PlayDealerHand
    \/ DealerStep

Spec == Init /\ [][Next]_vars

(***************************************************************************)
(* SpecHand: a lone Hand, grown by add_card from any ranks, as the drills  *)
(* of src/training_modes.py build one.  No game is constructed: the shoe   *)
(* is empty and stays so.                                                  *)
(***************************************************************************)
NoGame(r) ==
    /\ rules = r
    /\ running_count = 0 /\ cards_seen = 0
    /\ cards = <<>> /\ discards = <<>> /\ cut_card_position = 0
    /\ dealer_hand = NewHand
    /\ current_hand_index = 0
    /\ pc = "idle" /\ op = "init" /\ outcome = "ok" /\ arg = 0 /\ ret = 0
    /\ deals = 0 /\ rounds = 0

\* player_hands[1].add_card(Card(r, suit)) for a rank r of the set
HandAddCard(rankset, maxlen) ==
    /\ Len(player_hands[1].cards) < maxlen
    /\ \E r \in rankset :
         player_hands' = [player_hands EXCEPT ![1] = AddCard(@, Card(r, Suits[1]))]
    /\ Called("add_card", "ok")
    /\ UNCHANGED <<cards, discards, cut_card_position, dealer_hand,
                   current_hand_index, rules, counter, deals, rounds>>

\* dealer_hand.add_card(Card(r, suit)) for a rank r of the set
DealerAddCard(rankset, maxlen) ==
    /\ Len(dealer_hand.cards) < maxlen
    /\ \E r \in rankset : dealer_hand' = AddCard(dealer_hand, Card(r, Suits[2]))
    /\ Called("add_card", "ok")
    /\ UNCHANGED <<cards, discards, cut_card_position, player_hands,
                   current_hand_index, rules, counter, deals, rounds>>

HandInit == NoGame(RulesS17) /\ player_hands = <<NewHand>>

HandGrows == HandAddCard(RankSet, MaxHandLen)

HandNext == HandGrows

SpecHand == HandInit /\ [][HandNext]_vars

(***************************************************************************)
(* SpecResolve: resolve_hand on a lone player hand against a lone dealer   *)
(* hand, for either payout, with the hand's flags set either way.          *)
(***************************************************************************)
ResolveRanks == {"A", "K", "6", "9"}

ResolveInit ==
    /\ \E r \in {RulesS17, GameRules(1, FALSE, 12)} : NoGame(r)
    /\ \E s \in BOOLEAN, i \in BOOLEAN :
         player_hands = <<[NewHand EXCEPT !.bet = 100, !.is_surrendered = s,
                                          !.is_insured = i]>>

PlayerGrows == HandAddCard(ResolveRanks, MaxResolveLen)

DealerGrows == DealerAddCard(ResolveRanks, MaxResolveLen)

Resolves == ResolveHand(1)

ResolveNext == PlayerGrows \/ DealerGrows \/ Resolves

SpecResolve == ResolveInit /\ [][ResolveNext]_vars

(***************************************************************************)
(* SpecDealer: a round is dealt and the dealer plays, for every pair of    *)
(* dealer cards and every two cards that follow drawn from DealerRanks     *)
(* (the cards after those are the shoe's remaining Aces, then its Kings).  *)
(* The loop of play_dealer_hand runs to its end once entered: the code is  *)
(* synchronous, hence the weak fairness of DealerStep.                     *)
(***************************************************************************)
DealerRanks == {"A", "2", "5", "6"}

DealerTops ==
    { <<"7", a, "7", b, x, y>> :
        a \in DealerRanks, b \in DealerRanks, x \in DealerRanks,
        y \in DealerRanks }

DealerRuleSets == {RulesS17, RulesH17}

DealerInit ==
    \E r \in DealerRuleSets : \E top \in DealerTops :
        Dealable(top, r.num_decks) /\ Constructed(r, top)

NewRoundDealer == NewRoundFrom(DealerTops)

DealerNext ==
    \/ NewRoundDealer
    \/ DealInitialCards
    \/ PlayDealerHand
    \/ DealerStep

SpecDealer == DealerInit /\ [][DealerNext]_vars /\ WF_vars(DealerStep)

(***************************************************************************)
(* SpecDeep: one shuffle, and hit() with no cap on the hand, so that the   *)
(* shoe can be dealt to its last card.  The dealer plays when every player *)
(* hand is decided, as the callers have it.                                *)
(***************************************************************************)
DeepTops == {TopEights}

DeepInit ==
    \E top \in DeepTops : Constructed(RulesS17, top)

NewRoundDeep == NewRoundFrom(DeepTops)

PlayDealerHandAtEnd == IsRoundComplete /\ PlayDealerHand

HitAny == HitUpTo(Len(cards) + Len(discards) + 1)

DeepNext ==
    \/ NewRoundDeep
    \/ DealInitialCards
    \/ HitAny
    \/ Stand
    \/ DoubleDown
    \/ Split
    \/ PlayDealerHandAtEnd
    \/ DealerStep

SpecDeep == DeepInit /\ [][DeepNext]_vars

(***************************************************************************)
(* SpecBet: the player's side of a round with bets offered at any point,   *)
(* at the two limits of the rules and just outside them.                   *)
(***************************************************************************)
LimitBetAmounts == {5, 10, 500, 600}

PlaceLimitBet == \E amount \in LimitBetAmounts : PlaceBet(amount)

BetNext ==
    \/ NewRound
    \/ PlaceLimitBet
    \/ DealInitialCards
    \/ Hit
    \/ Stand
    \/ DoubleDown
    \/ Split

SpecBet == Init /\ [][BetNext]_vars

(***************************************************************************)
(* SpecShoe: rounds of hits one after another, one round more than the     *)
(* other specifications play, so that new_round meets a shoe at, above     *)
(* and below the cut card.  The first shuffle is TopEights, a reshuffle    *)
(* gives TopSixteen; the rules differ in penetration.                      *)
(***************************************************************************)
RulesHalfShoe == [GameRules(1, FALSE, 15) EXCEPT !.penetration = 50]

ShoeRuleSets == {RulesS17, RulesHalfShoe}

ShoeInit == \E r \in ShoeRuleSets : Constructed(r, TopEights)

NewRoundShoe == NewRoundWithin({TopSixteen}, MaxRounds + 1)

ShoeNext ==
    \/ NewRoundShoe
    \/ DealInitialCards
    \/ HitAny
    \/ Stand

SpecShoe == ShoeInit /\ [][ShoeNext]_vars

(***************************************************************************)
(* Basic strategy (src/basic_strategy.py).  An Action is the string of its *)
(* enum value; a row of a table lists the actions against the dealer       *)
(* values 2, 3, ..., 10, 11 in that order.                                 *)
(***************************************************************************)
HIT == "H"

STAND == "S"

DOUBLE == "D"

SPLIT == "SP"

SURRENDER == "SR"

DOUBLE_OR_HIT == "DH"

DOUBLE_OR_STAND == "DS"

SPLIT_IF_DAS == "SPD"

Action ==
    {HIT, STAND, DOUBLE, SPLIT, SURRENDER, DOUBLE_OR_HIT, DOUBLE_OR_STAND,
     SPLIT_IF_DAS}

\* a row with the same action against every dealer value
Always(a) == [v \in 1..10 |-> a]

\* an 11 that doubles against the Ace whatever the dealer does on soft 17
ElevenVsAceDoubles(h17) == DOUBLE_OR_HIT

\* 11: Action.DOUBLE_OR_HIT if self.dealer_hits_soft_17 else Action.HIT
ElevenVsAce(h17) == IF h17 THEN DOUBLE_OR_HIT ELSE HIT

\* 2: Action.STAND if not self.dealer_hits_soft_17 else Action.DOUBLE_OR_STAND
SoftEighteenVsTwo(h17) == IF ~h17 THEN STAND ELSE DOUBLE_OR_STAND

\* 11: Action.HIT if not self.dealer_hits_soft_17 else Action.HIT
SoftEighteenVsAce(h17) == IF ~h17 THEN HIT ELSE HIT

\* self.hard_strategy
HardStrategy(h17) ==
    [t \in 5..21 |->
       CASE t \in 5..8 -> Always(HIT)
         [] t = 9 -> <<HIT, DOUBLE_OR_HIT, DOUBLE_OR_HIT, DOUBLE_OR_HIT,
                       DOUBLE_OR_HIT, HIT, HIT, HIT, HIT, HIT>>
         [] t = 10 -> <<DOUBLE_OR_HIT, DOUBLE_OR_HIT, DOUBLE_OR_HIT,
                        DOUBLE_OR_HIT, DOUBLE_OR_HIT, DOUBLE_OR_HIT,
                        DOUBLE_OR_HIT, DOUBLE_OR_HIT, HIT, HIT>>
         [] t = 11 -> <<DOUBLE_OR_HIT, DOUBLE_OR_HIT, DOUBLE_OR_HIT,
                        DOUBLE_OR_HIT, DOUBLE_OR_HIT, DOUBLE_OR_HIT,
                        DOUBLE_OR_HIT, DOUBLE_OR_HIT, DOUBLE_OR_HIT,
                        ElevenVsAce(h17)>>
         [] t = 12 -> <<HIT, HIT, STAND, STAND, STAND, HIT, HIT, HIT, HIT,
                        HIT>>
         [] t \in 13..16 -> <<STAND, STAND, STAND, STAND, STAND, HIT, HIT,
                              HIT, HIT, HIT>>
         [] t \in 17..21 -> Always(STAND)]

\* self.soft_strategy
SoftStrategy(h17) ==
    [t \in 13..21 |->
       CASE t \in 13..14 -> <<HIT, HIT, HIT, DOUBLE_OR_HIT, DOUBLE_OR_HIT,
                              HIT, HIT, HIT, HIT, HIT>>
         [] t \in 15..16 -> <<HIT, HIT, DOUBLE_OR_HIT, DOUBLE_OR_HIT,
                              DOUBLE_OR_HIT, HIT, HIT, HIT, HIT, HIT>>
         [] t = 17 -> <<HIT, DOUBLE_OR_HIT, DOUBLE_OR_HIT, DOUBLE_OR_HIT,
                        DOUBLE_OR_HIT, HIT, HIT, HIT, HIT, HIT>>
         [] t = 18 -> <<SoftEighteenVsTwo(h17), DOUBLE_OR_STAND,
                        DOUBLE_OR_STAND, DOUBLE_OR_STAND, DOUBLE_OR_STAND,
                        STAND, STAND, HIT, HIT, SoftEighteenVsAce(h17)>>
         [] t \in 19..21 -> Always(STAND)]

\* Action.SPLIT if self.double_after_split else Action.HIT
SplitIfDas(das) == IF das THEN SPLIT ELSE HIT

\* self.pair_strategy
PairStrategy(das) ==
    [r \in RankSet |->
       CASE r \in {"2", "3"} ->
              <<SplitIfDas(das), SplitIfDas(das), SPLIT, SPLIT, SPLIT, SPLIT,
                HIT, HIT, HIT, HIT>>
         [] r = "4" -> <<HIT, HIT, HIT, SplitIfDas(das), SplitIfDas(das), HIT,
                         HIT, HIT, HIT, HIT>>
         [] r = "5" -> <<DOUBLE_OR_HIT, DOUBLE_OR_HIT, DOUBLE_OR_HIT,
                         DOUBLE_OR_HIT, DOUBLE_OR_HIT, DOUBLE_OR_HIT,
                         DOUBLE_OR_HIT, DOUBLE_OR_HIT, HIT, HIT>>
         [] r = "6" -> <<SplitIfDas(das), SPLIT, SPLIT, SPLIT, SPLIT, HIT,
                         HIT, HIT, HIT, HIT>>
         [] r = "7" -> <<SPLIT, SPLIT, SPLIT, SPLIT, SPLIT, SPLIT, HIT, HIT,
                         HIT, HIT>>
         [] r = "8" -> Always(SPLIT)
         [] r = "9" -> <<SPLIT, SPLIT, SPLIT, SPLIT, SPLIT, STAND, SPLIT,
                         SPLIT, STAND, STAND>>
         [] r \in {"10", "J", "Q", "K"} -> Always(STAND)
         [] r = "A" -> Always(SPLIT)]

\* a table that surrenders 17 against the Ace under either dealer rule
SurrenderStrategyAnyRule(cs, h17) ==
    [t \in 15..17 |->
       CASE t = 15 -> IF cs THEN {10} ELSE {}
         [] t = 16 -> IF cs THEN {9, 10, 11} ELSE {}
         [] t = 17 -> IF cs THEN {11} ELSE {}]

\* self.surrender_strategy
SurrenderStrategy(cs, h17) ==
    [t \in 15..17 |->
       CASE t = 15 -> IF cs THEN {10} ELSE {}
         [] t = 16 -> IF cs THEN {9, 10, 11} ELSE {}
         [] t = 17 -> IF cs /\ h17 THEN {11} ELSE {}]

\* table.get(key, {}).get(dealer_value, default), dealer_value in 2..11
Lookup(table, key, dealer_value, default) ==
    IF key \in DOMAIN table THEN table[key][dealer_value - 1] ELSE default

\* a conditional action that is handed on as it is
ConditionalKept(action, can_double) == action

\* get_action, "Handle conditional actions based on what's allowed"
Conditional(action, can_double) ==
    IF action = DOUBLE_OR_HIT
    THEN (IF can_double THEN DOUBLE ELSE HIT)
    ELSE IF action = DOUBLE_OR_STAND
    THEN (IF can_double THEN DOUBLE ELSE STAND)
    ELSE action

\* BasicStrategy.get_action of the strategy built from the rules r
GetAction(r, hand, dealer_upcard, can_double, can_split, can_surrender) ==
    LET dealer_value == CardValue(dealer_upcard)
        player_value == Value(hand)
        surrender_strategy ==
            SurrenderStrategy(r.can_surrender, r.dealer_hits_soft_17)
    IN  IF /\ can_surrender /\ Len(hand.cards) = 2 /\ ~IsSoft(hand)
           /\ player_value \in DOMAIN surrender_strategy
           /\ dealer_value \in surrender_strategy[player_value]
        THEN SURRENDER
        ELSE IF /\ can_split /\ IsPair(hand)
                /\ Lookup(PairStrategy(r.can_double_after_split),
                          hand.cards[1].rank, dealer_value, HIT) = SPLIT
        THEN SPLIT
        ELSE IF IsSoft(hand) /\ player_value <= 21
        THEN Conditional(Lookup(SoftStrategy(r.dealer_hits_soft_17),
                                player_value, dealer_value, STAND),
                         can_double)
        ELSE Conditional(Lookup(HardStrategy(r.dealer_hits_soft_17),
                                player_value, dealer_value, STAND),
                         can_double)

\* BasicStrategy.is_correct_action
IsCorrectAction(r, hand, dealer_upcard, player_action, can_double, can_split, can_surrender) ==
    LET correct_action ==
            GetAction(r, hand, dealer_upcard, can_double, can_split,
                      can_surrender)
    IN  IF player_action = correct_action THEN TRUE
        ELSE IF correct_action = DOUBLE_OR_HIT
        THEN player_action \in {DOUBLE, HIT}
        ELSE IF correct_action = DOUBLE_OR_STAND
        THEN player_action \in {DOUBLE, STAND}
        ELSE FALSE

(***************************************************************************)
(* SpecStrategy: a strategy built from each setting of the three rules it  *)
(* reads, asked about a lone hand against a dealer upcard as the drills    *)
(* and the simulator of src/training_modes.py ask it.  The first two cards *)
(* of the hand are of any value, the later ones a 2 or an Ace.             *)
(***************************************************************************)
StrategyRuleSets ==
    { [GameRules(1, h17, 15) EXCEPT !.can_surrender = cs,
                                    !.can_double_after_split = das] :
        h17 \in BOOLEAN, cs \in BOOLEAN, das \in BOOLEAN }

StrategyRanks == {"2", "3", "4", "5", "6", "7", "8", "9", "10", "K", "A"}

LateRanks == {"2", "A"}

UpcardRanks == {"2", "3", "4", "5", "6", "7", "8", "9", "10", "A"}

StrategyInit ==
    /\ \E r \in StrategyRuleSets : NoGame(r)
    /\ player_hands = <<NewHand>>

StrategyHandGrows ==
    \/ Len(player_hands[1].cards) < 2 /\ HandAddCard(StrategyRanks, 2)
    \/ Len(player_hands[1].cards) >= 2 /\ HandAddCard(LateRanks, MaxStrategyLen)

DealerShows == DealerAddCard(UpcardRanks, 1)

\* the strategy is asked once a card has been added: about a hand of two
\* cards or more against an upcard (its answer depends on nothing else)
Askable ==
    /\ op = "add_card"
    /\ Len(player_hands[1].cards) >= 2 /\ Len(dealer_hand.cards) = 1

\* strategy.get_action(hand, dealer_upcard, can_double, can_split, can_surrender)
GetActionCall ==
    /\ Askable
    /\ \E cd \in BOOLEAN, cs \in BOOLEAN, csr \in BOOLEAN :
         /\ arg' = [can_double |-> cd, can_split |-> cs, can_surrender |-> csr]
         /\ ret' = GetAction(rules, player_hands[1], dealer_hand.cards[1],
                             cd, cs, csr)
    /\ op' = "get_action" /\ outcome' = "ok"
    /\ UNCHANGED <<game, counter, pc, deals, rounds>>

\* a returned bool as ret holds it: True or False
Returned(b) == IF b THEN "True" ELSE "False"

\* strategy.is_correct_action(hand, dealer_upcard, player_action, can_double)
IsCorrectActionCall ==
    /\ Askable
    /\ \E a \in {HIT, STAND, DOUBLE}, cd \in BOOLEAN :
         /\ arg' = [player_action |-> a, can_double |-> cd,
                    can_split |-> TRUE, can_surrender |-> TRUE]
         /\ ret' = Returned(IsCorrectAction(rules, player_hands[1],
                                            dealer_hand.cards[1], a, cd,
                                            TRUE, TRUE))
    /\ op' = "is_correct_action" /\ outcome' = "ok"
    /\ UNCHANGED <<game, counter, pc, deals, rounds>>

StrategyNext ==
    \/ StrategyHandGrows
    \/ DealerShows
    \/ GetActionCall
    \/ IsCorrectActionCall

SpecStrategy == StrategyInit /\ [][StrategyNext]_vars

\* the PAIRS chart print_strategy_charts prints, "D" read as Double
PairsChart ==
    [r \in {"2", "3", "4", "5", "6", "7", "8", "9", "10", "A"} |->
       CASE r \in {"2", "3"} -> <<SPLIT, SPLIT, SPLIT, SPLIT, SPLIT, SPLIT,
                                  HIT, HIT, HIT, HIT>>
         [] r = "4" -> <<HIT, HIT, HIT, SPLIT, SPLIT, HIT, HIT, HIT, HIT, HIT>>
         [] r = "5" -> <<DOUBLE, DOUBLE, DOUBLE, DOUBLE, DOUBLE, DOUBLE,
                         DOUBLE, DOUBLE, HIT, HIT>>
         [] r = "6" -> <<SPLIT, SPLIT, SPLIT, SPLIT, SPLIT, HIT, HIT, HIT,
                         HIT, HIT>>
         [] r = "7" -> <<SPLIT, SPLIT, SPLIT, SPLIT, SPLIT, SPLIT, HIT, HIT,
                         HIT, HIT>>
         [] r = "8" -> Always(SPLIT)
         [] r = "9" -> <<SPLIT, SPLIT, SPLIT, SPLIT, SPLIT, STAND, SPLIT,
                         SPLIT, STAND, STAND>>
         [] r = "10" -> Always(STAND)
         [] r = "A" -> Always(SPLIT)]

(***************************************************************************)
(* Card counting (src/counting_system.py).  A float is the exact fraction  *)
(* num/den it stands for, with den > 0 and the fraction in lowest terms.   *)
(***************************************************************************)
Abs(n) == IF n < 0 THEN -n ELSE n

RECURSIVE Gcd(_, _)
Gcd(a, b) == IF b = 0 THEN a ELSE Gcd(b, a % b)

Frac(n, d) ==
    LET g == Gcd(Abs(n), d) IN [num |-> n \div g, den |-> d \div g]

Whole(n) == Frac(n, 1)

Times(x, y) == Frac(x.num * y.num, x.den * y.den)

\* x / y for y > 0
Over(x, y) == Frac(x.num * y.den, x.den * y.num)

AtMost(x, y) == x.num * y.den <= y.num * x.den

FracMin(x, y) == IF AtMost(x, y) THEN x ELSE y

FracMax(x, y) == IF AtMost(x, y) THEN y ELSE x

\* floor(x): the largest integer <= x
FloorOf(x) == x.num \div x.den

\* int(x): the fraction part is dropped, towards zero
IntOf(x) == IF x.num >= 0 THEN x.num \div x.den ELSE -((-x.num) \div x.den)

\* round(x): to the nearest integer, a tie to the even one
Round(x) ==
    LET q == FloorOf(x)
        r == x.num - (q * x.den)
    IN  IF 2 * r < x.den THEN q
        ELSE IF 2 * r > x.den THEN q + 1
        ELSE IF q % 2 = 0 THEN q ELSE q + 1

\* Card.hi_lo_value
HiLoValue(card) ==
    IF card.rank \in {"2", "3", "4", "5", "6"} THEN 1
    ELSE IF card.rank \in {"10", "J", "Q", "K", "A"} THEN -1
    ELSE 0

\* HiLoCounter.get_true_count
GetTrueCount(count, decks_remaining) ==
    IF AtMost(decks_remaining, Whole(0)) THEN Whole(0)
    ELSE Over(Whole(count), decks_remaining)

\* Deck.decks_remaining of a shoe of n cards
DecksRemaining(n) == Frac(n, DeckSize)

GetBettingIndex(true_count) ==
    LET tc == IntOf(true_count)
    IN  IF tc <= 0 THEN "MIN_BET"
        ELSE IF tc = 1 THEN "MIN_BET"
        ELSE IF tc = 2 THEN "2_UNITS"
        ELSE IF tc = 3 THEN "4_UNITS"
        ELSE IF tc = 4 THEN "6_UNITS"
        ELSE IF tc >= 5 THEN "8_UNITS"
        ELSE "MIN_BET"

\* the returns of should_deviate_from_basic_strategy, None among them
Deviations == {"INSURE", "STAND", "SPLIT", "None"}

ShouldDeviate(true_count, player_total, dealer_upcard, is_soft) ==
    LET tc == IntOf(true_count)
    IN  IF dealer_upcard = 11 /\ tc >= 3 THEN "INSURE"
        ELSE IF player_total = 16 /\ dealer_upcard = 10 /\ ~is_soft /\ tc >= 0
        THEN "STAND"
        ELSE IF player_total = 15 /\ dealer_upcard = 10 /\ ~is_soft /\ tc >= 4
        THEN "STAND"
        ELSE IF player_total = 12 /\ dealer_upcard = 3 /\ tc >= 2 THEN "STAND"
        ELSE IF player_total = 12 /\ dealer_upcard = 2 /\ tc >= 3 THEN "STAND"
        ELSE IF player_total = 13 /\ dealer_upcard = 2 /\ tc >= -1 THEN "STAND"
        ELSE IF player_total = 20 /\ dealer_upcard = 5 /\ tc >= 5 THEN "SPLIT"
        ELSE IF player_total = 20 /\ dealer_upcard = 6 /\ tc >= 4 THEN "SPLIT"
        ELSE "None"

\* BettingStrategy(bankroll, risk_tolerance), max_bet set afterwards
BettingStrategy(bankroll, risk_tolerance, max_bet) ==
    [bankroll |-> bankroll, risk_tolerance |-> risk_tolerance,
     min_bet |-> 10, max_bet |-> max_bet]

\* kelly_criterion_bet of the strategy b; min_bet is a whole amount
KellyCriterionBet(b, true_count, min_bet) ==
    IF AtMost(true_count, Whole(0)) THEN min_bet
    ELSE LET edge == Times(true_count, Frac(5, 1000))
             variance == Frac(133, 100)
             kelly_pct == Over(edge, variance)
             adjusted_kelly == Times(kelly_pct, b.risk_tolerance)
             bet == Times(Whole(b.bankroll), adjusted_kelly)
             limited == FracMax(Whole(min_bet),
                                FracMin(bet, Whole(b.max_bet)))
         IN  Round(Over(limited, Whole(10))) * 10

\* simple_spread_bet of the strategy b; min_bet is a whole amount
SimpleSpreadBet(b, true_count, min_bet, spread) ==
    LET tc == IntOf(true_count)
        bet_units == IF tc <= 0 THEN 1
                     ELSE IF tc = 1 THEN 1
                     ELSE IF tc = 2 THEN 2
                     ELSE IF tc = 3 THEN 4
                     ELSE IF tc = 4 THEN 6
                     ELSE IF tc >= 5 THEN (IF spread < 8 THEN spread ELSE 8)
                     ELSE 1
        bet == min_bet * bet_units
        capped == IF bet < b.max_bet THEN bet ELSE b.max_bet
    IN  IF b.min_bet > capped THEN b.min_bet ELSE capped

\* optimal_bet_size(true_count) with use_kelly left True
OptimalBetSize(b, true_count) == KellyCriterionBet(b, true_count, b.min_bet)

(***************************************************************************)
(* SpecCount: the counter and the betting strategy asked on their own.     *)
(* should_deviate_from_basic_strategy is given the value() and is_soft()   *)
(* of a lone hand grown by add_card; true counts are the halves from       *)
(* -MaxTrueCount to MaxTrueCount.                                          *)
(***************************************************************************)
CountRanks == {"A", "3", "5", "6", "9", "10", "K"}

TrueCounts == {Frac(n, 2) : n \in (-2 * MaxTrueCount)..(2 * MaxTrueCount)}

DeviationUpcards == {2, 3, 5, 6, 10, 11}

BettingStrategies ==
    { BettingStrategy(bankroll, risk, max_bet) :
        bankroll \in {1000, 10000}, risk \in {Frac(1, 2), Whole(1)},
        max_bet \in {100, 500} }

MinBets == {5, 10, 25, 100}

CountInit == NoGame(RulesS17) /\ player_hands = <<NewHand>>

CountHandGrows == HandAddCard(CountRanks, MaxCountLen)

\* counter.should_deviate_from_basic_strategy(true_count, hand.value(),
\* dealer_upcard, hand.is_soft()), asked once a card has been added
ShouldDeviateCall ==
    /\ op = "add_card"
    /\ Len(player_hands[1].cards) >= 2
    /\ \E tc \in TrueCounts, up \in DeviationUpcards :
         /\ arg' = [true_count |-> tc,
                    player_total |-> Value(player_hands[1]),
                    dealer_upcard |-> up,
                    is_soft |-> IsSoft(player_hands[1])]
         /\ ret' = ShouldDeviate(tc, Value(player_hands[1]), up,
                                 IsSoft(player_hands[1]))
    /\ op' = "should_deviate" /\ outcome' = "ok"
    /\ UNCHANGED <<game, counter, pc, deals, rounds>>

\* counter.get_betting_index(true_count), asked once a card has been added
\* (its answer depends on the true count alone)
GetBettingIndexCall ==
    /\ op = "add_card"
    /\ \E tc \in TrueCounts :
         /\ arg' = [true_count |-> tc]
         /\ ret' = GetBettingIndex(tc)
    /\ op' = "get_betting_index" /\ outcome' = "ok"
    /\ UNCHANGED <<game, counter, pc, deals, rounds>>

\* b.kelly_criterion_bet(true_count, min_bet), asked before any card is added
KellyCriterionBetCall ==
    /\ op = "init"
    /\ \E b \in BettingStrategies, tc \in TrueCounts, m \in MinBets :
         /\ arg' = [strategy |-> b, true_count |-> tc, min_bet |-> m]
         /\ ret' = KellyCriterionBet(b, tc, m)
    /\ op' = "kelly_criterion_bet" /\ outcome' = "ok"
    /\ UNCHANGED <<game, counter, pc, deals, rounds>>

\* the spreads simple_spread_bet is asked with
Spreads == {1, 2, 8, 10}

\* b.simple_spread_bet(true_count, min_bet, spread), asked before any card is
\* added
SimpleSpreadBetCall ==
    /\ op = "init"
    /\ \E b \in BettingStrategies, tc \in TrueCounts, m \in MinBets,
          spread \in Spreads :
         /\ arg' = [strategy |-> b, true_count |-> tc, min_bet |-> m,
                    spread |-> spread]
         /\ ret' = SimpleSpreadBet(b, tc, m, spread)
    /\ op' = "simple_spread_bet" /\ outcome' = "ok"
    /\ UNCHANGED <<game, counter, pc, deals, rounds>>

CountNext ==
    \/ CountHandGrows
    \/ ShouldDeviateCall
    \/ GetBettingIndexCall
    \/ KellyCriterionBetCall
    \/ SimpleSpreadBetCall

SpecCount == CountInit /\ [][CountNext]_vars

(***************************************************************************)
(* SpecSim: FullGameSimulator.play_session (src/training_modes.py) on a    *)
(* one-deck shoe, rounds of play_round one after another.  A step is one   *)
(* call into the game, or the counting that follows it: op tells where     *)
(* play_round stands.  The player answers the prompt with any of H, S, D,  *)
(* SP and SR, and splits while there are fewer than MaxCursor hands.  The  *)
(* bet is the one optimal_bet_size gives for a bankroll of 10000.          *)
(***************************************************************************)
SimTopPair == <<"8", "6", "8", "10", "3", "2", "7", "9">>

SimTopNatural == <<"A", "9", "K", "7", "5", "6", "4">>

SimTopLow ==
    <<"5", "4", "6", "3", "2", "2", "3", "4", "2", "3", "4", "5", "6", "5",
      "6", "2", "3", "4", "5", "6", "7", "7", "8", "8", "9", "9">>

SimTops == {SimTopPair, SimTopNatural, SimTopLow}

\* self.betting_strategy = BettingStrategy(starting_bankroll)
SimBettingStrategy == BettingStrategy(10000, Frac(1, 2), 500)

SimInit == \E top \in SimTops : Constructed(RulesS17, top)

\* the Hi-Lo values of the cards cs, added up
HiLoSum(cs) ==
    LET sum[n \in 0..Len(cs)] ==
            IF n = 0 THEN 0 ELSE sum[n - 1] + HiLoValue(cs[n])
    IN  sum[Len(cs)]

\* counter.count_card(card) for each card of cs
CountCards(cs) ==
    /\ running_count' = running_count + HiLoSum(cs)
    /\ cards_seen' = cards_seen + Len(cs)

\* play_round has returned, or has not been called yet
BetweenRounds ==
    \/ op \in {"init", "play_round"}
    \/ op = "place_bet" /\ outcome = "ValueError"

\* play_session: the shoe is at the cut card, deck.reset() and counter.reset()
SessionShuffle ==
    /\ BetweenRounds
    /\ NeedsShuffle
    /\ \E top \in SimTops :
         /\ cards' = Shuffled(rules.num_decks, top)
         /\ cut_card_position' = CutCardPosition(cards')
    /\ discards' = <<>>
    /\ deals' = 0
    /\ running_count' = 0 /\ cards_seen' = 0
    /\ Called("reset", "ok")
    /\ UNCHANGED <<player_hands, dealer_hand, current_hand_index, rules,
                   rounds>>

\* play_round: self.game.new_round()
SimNewRound ==
    /\ (BetweenRounds /\ ~NeedsShuffle) \/ op = "reset"
    /\ NewRoundWithin(SimTops, MaxSimRounds)

\* play_round: the true count, the bet and place_bet
SimPlaceBet ==
    /\ op = "new_round"
    /\ PlaceBet(OptimalBetSize(SimBettingStrategy,
                               GetTrueCount(running_count,
                                            DecksRemaining(Len(cards)))))

SimDealInitialCards ==
    /\ op = "place_bet" /\ outcome = "ok"
    /\ DealInitialCards

\* play_round: the visible cards are counted; with a player blackjack the
\* hole card is counted too and the round is over
CountVisible ==
    /\ op = "deal_initial_cards" /\ outcome = "ok"
    /\ LET visible == <<player_hands[1].cards[1], player_hands[1].cards[2],
                        dealer_hand.cards[1]>>
       IN  IF IsBlackjack(player_hands[1])
           THEN /\ CountCards(visible \o <<dealer_hand.cards[2]>>)
                /\ Called("play_round", "ok")
           ELSE /\ CountCards(visible)
                /\ Called("count_card", "ok")
    /\ UNCHANGED <<game, deals, rounds>>

\* control is at the test of the while loop over the player's hands: a call
\* has returned, or raised the ValueError play_round catches
LoopHead ==
    \/ op \in {"count_card", "stand"}
    \/ op \in {"double_down", "split", "surrender"} /\ outcome = "ValueError"
    \/ op \in {"split", "surrender"} /\ outcome = "ok"

\* the player is asked for an action on the current hand
Prompt == LoopHead /\ HasCurrentHand /\ ~IsBust(CurrentHand)

\* a bust hand is stood on, straight after the hit that bust it
BustStand == LoopHead /\ HasCurrentHand /\ IsBust(CurrentHand) /\ Stand

InputHit == Prompt /\ HitAny

InputStand == Prompt /\ Stand

InputDouble == Prompt /\ DoubleDown

InputSplit == Prompt /\ Len(player_hands) < MaxCursor /\ Split

InputSurrender == Prompt /\ Surrender

\* self.counter.count_card(card) for the card hit() or double_down() returned,
\* which is the last one dealt
CountDrawn ==
    /\ op \in {"hit", "double_down"} /\ outcome = "ok"
    /\ CountCards(<<discards[Len(discards)]>>)
    /\ Called("count_card", "ok")
    /\ UNCHANGED <<game, deals, rounds>>

\* the player's hands are played: the hole card is counted
CountHole ==
    /\ LoopHead /\ IsRoundComplete
    /\ CountCards(<<dealer_hand.cards[2]>>)
    /\ Called("count_hole", "ok")
    /\ UNCHANGED <<game, deals, rounds>>

SimPlayDealerHand == op = "count_hole" /\ PlayDealerHand

\* the cards the dealer drew are counted; the hands are resolved and the
\* round recorded, which changes neither the game nor the counter
CountDealerDraws ==
    /\ op = "play_dealer_hand" /\ outcome = "ok" /\ pc = "idle"
    /\ CountCards(SubSeq(dealer_hand.cards, 3, Len(dealer_hand.cards)))
    /\ Called("play_round", "ok")
    /\ UNCHANGED <<game, deals, rounds>>

SimNext ==
    \/ SessionShuffle
    \/ SimNewRound
    \/ SimPlaceBet
    \/ SimDealInitialCards
    \/ CountVisible
    \/ BustStand
    \/ InputHit
    \/ InputStand
    \/ InputDouble
    \/ InputSplit
    \/ InputSurrender
    \/ CountDrawn
    \/ CountHole
    \/ SimPlayDealerHand
    \/ DealerStep
    \/ CountDealerDraws

SpecSim == SimInit /\ [][SimNext]_vars

(***************************************************************************)
(* SpecDrill: the Speed Challenge of counting_menu                         *)
(* (src/blackjack_trainer.py): a SpeedCountTrainer of six decks runs       *)
(* single_card_drill(52).  The shuffles are three of the orders a shoe of  *)
(* six decks can come in: the ranks in turn, the low cards first, the      *)
(* tens and Aces first.                                                    *)
(***************************************************************************)
\* trainer.single_card_drill(52)
DrillCards == 52

\* trainer = SpeedCountTrainer(num_decks=6); a trainer has no other rule
RulesSixDecks == GameRules(6, FALSE, 15)

RanksInTurn == [i \in 1..DrillCards |-> Ranks[((i - 1) % Len(Ranks)) + 1]]

LowCards == <<"2", "3", "4", "5", "6">>

LowFirst == [i \in 1..DrillCards |-> LowCards[((i - 1) % Len(LowCards)) + 1]]

HighCards == <<"10", "J", "Q", "K", "A">>

HighFirst ==
    [i \in 1..DrillCards |-> HighCards[((i - 1) % Len(HighCards)) + 1]]

DrillTops == {RanksInTurn, LowFirst, HighFirst}

\* SpeedCountTrainer.__init__: Deck(num_decks) and HiLoCounter()
DrillInit == \E top \in DrillTops : Constructed(RulesSixDecks, top)

\* single_card_drill up to its loop: counter.reset and deck.reset
DrillStart ==
    /\ op = "init"
    /\ running_count' = 0 /\ cards_seen' = 0
    /\ \E top \in DrillTops :
         /\ cards' = Shuffled(rules.num_decks, top)
         /\ cut_card_position' = CutCardPosition(cards')
    /\ discards' = <<>>
    /\ deals' = 0
    /\ Called("reset", "ok")
    /\ UNCHANGED <<player_hands, dealer_hand, current_hand_index, rules,
                   rounds>>

\* one pass of the loop, deal_card and count_card; after the last pass the
\* drill returns
DrillCard ==
    /\ op \in {"reset", "count_card"}
    /\ deals < DrillCards
    /\ Deal(1)
    /\ CountCards(DealtCards(cards, 1))
    /\ Called(IF deals + 1 = DrillCards THEN "single_card_drill"
              ELSE "count_card", "ok")
    /\ UNCHANGED <<cut_card_position, player_hands, dealer_hand,
                   current_hand_index, rules, rounds>>

DrillNext == DrillStart \/ DrillCard

SpecDrill == DrillInit /\ [][DrillNext]_vars

(***************************************************************************)
(* SpecSplit: rounds that split, under rules that allow neither surrender  *)
(* nor doubling after a split, with one split or three allowed.  The       *)
(* first shuffle deals a pair of eights that is split into two pairs of    *)
(* eights, or a pair of Aces that is split and draws two ten-valued cards. *)
(***************************************************************************)
\* GameRules(num_decks=1, can_surrender=False, can_double_after_split=False,
\*           max_splits=m)
RulesStrict(m) ==
    [RulesS17 EXCEPT !.can_surrender = FALSE,
                     !.can_double_after_split = FALSE,
                     !.max_splits = m]

SplitRuleSets == {RulesStrict(1), RulesStrict(3)}

TopResplit == <<"8", "A", "8", "K", "8", "8", "3">>

TopSplitAces == <<"A", "6", "A", "9", "K", "Q", "5">>

SplitTops == {TopResplit, TopSplitAces}

SplitInit == \E r \in SplitRuleSets, top \in SplitTops : Constructed(r, top)

NewRoundSplit == NewRoundFrom(SplitTops)

PlaceUnitBet == PlaceBet(100)

ResolveAny == \E i \in 1..2 : ResolveHand(i)

SplitNext ==
    \/ NewRoundSplit
    \/ PlaceUnitBet
    \/ DealInitialCards
    \/ Hit
    \/ Stand
    \/ DoubleDown
    \/ Split
    \/ Surrender
    \/ PlayDealerHandAtEnd
    \/ DealerStep
    \/ ResolveAny

SpecSplit == SplitInit /\ [][SplitNext]_vars

(***************************************************************************)
(* SpecRules: games built from rules whose bet limits are in order, equal  *)
(* or reversed.  GameRules is a dataclass without a __post_init__ and      *)
(* BlackjackGame.__init__ reads nothing of the rules but num_decks: every  *)
(* construction succeeds.                                                  *)
(***************************************************************************)
\* GameRules(num_decks=1, min_bet=lo, max_bet=hi)
RulesWithBets(lo, hi) == [RulesS17 EXCEPT !.min_bet = lo, !.max_bet = hi]

BetRuleSets ==
    {RulesWithBets(10, 500), RulesWithBets(100, 100), RulesWithBets(500, 10)}

RulesInit == \E r \in BetRuleSets : Constructed(r, TopSixteen)

RulesNext ==
    \/ NewRound
    \/ PlaceLimitBet
    \/ DealInitialCards
    \/ Hit
    \/ Stand

SpecRules == RulesInit /\ [][RulesNext]_vars

(***************************************************************************)
(* What the claims speak of, defined without the code's own loops.         *)
(***************************************************************************)
Max(S) == CHOOSE x \in S : \A y \in S : y <= x

\* the total with every Ace counted as 1
LowTotal(cs) ==
    LET low[n \in 0..Len(cs)] ==
            IF n = 0 THEN 0
            ELSE low[n - 1]
                 + (CASE cs[n].rank = "A" -> 1
                      [] cs[n].rank \in {"10", "J", "Q", "K"} -> 10
                      [] OTHER -> RankInt(cs[n].rank))
    IN  low[Len(cs)]

AcesIn(cs) == Cardinality({i \in DOMAIN cs : cs[i].rank = "A"})

\* every total obtainable by counting each Ace as 1 or as 11
Totals(cs) == {LowTotal(cs) + (10 * k) : k \in 0..AcesIn(cs)}

\* the largest total <= 21 if there is one, else the total with all Aces as 1
BestTotal(cs) ==
    IF \E t \in Totals(cs) : t <= 21
    THEN Max({t \in Totals(cs) : t <= 21})
    ELSE LowTotal(cs)

\* the best total counts an Ace as 11
AceAsEleven(cs) == BestTotal(cs) <= 21 /\ BestTotal(cs) = LowTotal(cs) + 10

Busted(h) == BestTotal(h.cards) > 21

Natural(h) == Len(h.cards) = 2 /\ BestTotal(h.cards) = 21

RanksOf(h) == [i \in DOMAIN h.cards |-> h.cards[i].rank]

\* resolve_hand has just returned ret for the hand player_hands[arg]
Resolved == op = "resolve_hand" /\ outcome = "ok"

(***************************************************************************)
(* C1.  Between resets the cards of the shoe and of the discard pile are   *)
(* 52*N together, and after n successful deals 52*N - n are left.          *)
(***************************************************************************)
C1_ShoeConserved ==
    /\ Len(cards) + Len(discards) = 52 * rules.num_decks
    /\ Len(cards) = (52 * rules.num_decks) - deals

\* a split and a dealer's draw have happened in a shoe of two decks
C1_Witness ==
    /\ rules.num_decks = 2
    /\ Len(player_hands) = 2
    /\ Len(dealer_hand.cards) >= 2
    /\ deals >= 7

(***************************************************************************)
(* C2.  value() is the largest total <= 21 obtainable by counting each Ace *)
(* as 1 or 11, and the total with every Ace as 1 if there is none.         *)
(***************************************************************************)
C2_ValueIsBestTotal ==
    \A i \in DOMAIN player_hands :
        Value(player_hands[i]) = BestTotal(player_hands[i].cards)

\* two Aces must both come down to 1
C2_Witness ==
    /\ player_hands # <<>>
    /\ RanksOf(player_hands[1]) = <<"A", "K", "A">>
    /\ Value(player_hands[1]) = 12

(***************************************************************************)
(* C3.  is_soft() is true exactly when value() <= 21 and value() counts an *)
(* Ace as 11, i.e. is 10 more than the total with every Ace as 1.          *)
(***************************************************************************)
C3_SoftIffAceAsEleven ==
    \A i \in DOMAIN player_hands :
        LET h == player_hands[i]
        IN  IsSoft(h) <=>
              (Value(h) <= 21 /\ Value(h) = LowTotal(h.cards) + 10)

(***************************************************************************)
(* C4.  With no blackjack on either side resolve_hand returns -0.5*bet for *)
(* a surrendered hand, else -bet for a busted player hand even when the    *)
(* dealer is bust too, else +bet for a busted dealer, else +bet, -bet or 0 *)
(* as the player's total is higher than, lower than or equal to the        *)
(* dealer's.  (ret is in tenths.)                                          *)
(***************************************************************************)
C4_ResolvePrecedence ==
    Resolved =>
        LET h == player_hands[arg]
            d == dealer_hand
            p == BestTotal(h.cards)
            q == BestTotal(d.cards)
        IN  (~Natural(h) /\ ~Natural(d)) =>
              ret = IF h.is_surrendered THEN -(5 * h.bet)
                    ELSE IF p > 21 THEN -(10 * h.bet)
                    ELSE IF q > 21 THEN 10 * h.bet
                    ELSE IF p > q THEN 10 * h.bet
                    ELSE IF p < q THEN -(10 * h.bet)
                    ELSE 0

\* player and dealer are both bust and the player loses the bet
C4_Witness ==
    /\ Resolved
    /\ ~player_hands[arg].is_surrendered
    /\ Busted(player_hands[arg]) /\ Busted(dealer_hand)
    /\ player_hands[arg].bet = 100 /\ ret = -1000

(***************************************************************************)
(* C5.  A player blackjack that is not surrendered resolves to 0 against a *)
(* dealer blackjack and to bet*blackjack_payout otherwise, whatever the    *)
(* dealer's total.                                                         *)
(***************************************************************************)
C5_BlackjackPays ==
    Resolved =>
        LET h == player_hands[arg]
        IN  (~h.is_surrendered /\ Natural(h)) =>
              ret = IF Natural(dealer_hand) THEN 0
                    ELSE h.bet * rules.blackjack_payout

\* bet 100 at 3:2 against a busted dealer: +150
C5_Witness ==
    /\ Resolved
    /\ Natural(player_hands[arg]) /\ ~player_hands[arg].is_surrendered
    /\ Busted(dealer_hand)
    /\ rules.blackjack_payout = 15
    /\ player_hands[arg].bet = 100 /\ ret = 1500

DealerReturned == op = "play_dealer_hand" /\ outcome = "ok"

C7_DealerFinal ==
    DealerReturned =>
        LET t    == BestTotal(dealer_hand.cards)
            soft == AceAsEleven(dealer_hand.cards)
        IN  \/ t > 21
            \/ t \in 18..21
            \/ (t = 17 /\ ~soft)
            \/ (t = 17 /\ soft /\ ~rules.dealer_hits_soft_17)

(***************************************************************************)
(* C8.  Once entered, the loop of play_dealer_hand ends, and ends by       *)
(* returning (not by running the shoe out), after finitely many hits.      *)
(***************************************************************************)
C8_DealerTerminates == (pc = "dealer") ~> DealerReturned

\* the dealer has returned after four hits or more
C8_Witness == DealerReturned /\ Len(dealer_hand.cards) >= 6

(***************************************************************************)
(* C9.  deal_initial_cards on a fresh round takes the next four cards of   *)
(* the shoe in order, the 1st and 3rd to the player's hand, the 2nd and    *)
(* 4th to the dealer's: both hands then hold 2 cards and the shoe has 4    *)
(* fewer.                                                                  *)
(***************************************************************************)
C9_DealOrder ==
    [][(FreshHands /\ player_hands # <<>> /\ op' = "deal_initial_cards") =>
          LET n == Len(cards)
          IN  /\ outcome' = "ok"
              /\ player_hands'[1].cards = <<cards[n], cards[n - 2]>>
              /\ dealer_hand'.cards = <<cards[n - 1], cards[n - 3]>>
              /\ cards' = SubSeq(cards, 1, n - 4)
              /\ Len(player_hands') = 1]_vars

\* the four cards have just been dealt
C9_Witness ==
    /\ op = "deal_initial_cards" /\ outcome = "ok"
    /\ Len(player_hands[1].cards) = 2 /\ Len(dealer_hand.cards) = 2
    /\ deals = 4

(***************************************************************************)
(* C10.  double_down on a current hand of exactly 2 cards that is not      *)
(* doubled doubles its bet, sets is_doubled, adds exactly one card from    *)
(* the shoe to it and advances the cursor by one; on any other current     *)
(* hand it fails and changes neither bet, flags, cards, shoe nor cursor.   *)
(***************************************************************************)
C10_DoubleDown ==
    [][(HasCurrentHand /\ op' = "double_down") =>
          LET i  == current_hand_index + 1
              h  == player_hands[i]
          IN  IF Len(h.cards) = 2 /\ ~h.is_doubled
              THEN /\ outcome' = "ok"
                   /\ player_hands' =
                        [player_hands EXCEPT ![i] =
                            [h EXCEPT !.bet = 2 * h.bet,
                                      !.is_doubled = TRUE,
                                      !.cards = Append(h.cards, cards[Len(cards)])]]
                   /\ cards' = SubSeq(cards, 1, Len(cards) - 1)
                   /\ current_hand_index' = current_hand_index + 1
              ELSE /\ outcome' # "ok"
                   /\ UNCHANGED <<player_hands, cards, discards,
                                  current_hand_index>>]_vars

(***************************************************************************)
(* C11.  A split that succeeds leaves the cursor where it was, puts the    *)
(* new hand right after the current one, and leaves the two hands with 2   *)
(* cards each (one card of the pair and one fresh card, the shoe 2 cards   *)
(* shorter), the same bet and is_split set, the other hands as they were.  *)
(* On a current hand that is not an unsplit pair, or with max_splits + 1   *)
(* hands already, split fails and changes no hand, shoe or cursor.         *)
(***************************************************************************)
C11_Split ==
    [][(HasCurrentHand /\ op' = "split") =>
          LET i == current_hand_index + 1
              h == player_hands[i]
              n == Len(cards)
              pair == /\ Len(h.cards) = 2
                      /\ h.cards[1].rank = h.cards[2].rank
                      /\ ~h.is_split
          IN  /\ outcome' = "ok" =>
                    /\ current_hand_index' = current_hand_index
                    /\ Len(player_hands') = Len(player_hands) + 1
                    /\ player_hands'[i] =
                          [h EXCEPT !.cards = <<h.cards[1], cards[n]>>,
                                    !.is_split = TRUE]
                    /\ player_hands'[i + 1] =
                          [NewHand EXCEPT !.cards = <<h.cards[2], cards[n - 1]>>,
                                          !.bet = h.bet,
                                          !.is_split = TRUE]
                    /\ \A j \in 1..Len(player_hands) :
                          /\ j < i => player_hands'[j] = player_hands[j]
                          /\ j > i => player_hands'[j + 1] = player_hands[j]
                    /\ cards' = SubSeq(cards, 1, n - 2)
              /\ ~(pair /\ Len(player_hands) < rules.max_splits + 1) =>
                    /\ outcome' # "ok"
                    /\ UNCHANGED <<player_hands, dealer_hand, cards, discards,
                                   current_hand_index>>]_vars

\* a pair that carries a bet has just been split
C11_Witness ==
    /\ op = "split" /\ outcome = "ok"
    /\ Len(player_hands) = 2
    /\ player_hands[1].bet > 0
    /\ player_hands[2].bet = player_hands[1].bet

(***************************************************************************)
(* C12.  surrender succeeds, setting is_surrendered and advancing the      *)
(* cursor by one, only on a current hand that still holds exactly the two  *)
(* cards it was dealt at the start of the round; on a current hand that    *)
(* has received a card by hit or by split it fails and changes nothing.    *)
(***************************************************************************)
C12_SurrenderOriginalTwo ==
    [][(HasCurrentHand /\ op' = "surrender") =>
          LET i == current_hand_index + 1
              h == player_hands[i]
              original == Len(h.cards) = 2 /\ ~h.is_split
          IN  /\ outcome' = "ok" =>
                    /\ player_hands' =
                          [player_hands EXCEPT ![i].is_surrendered = TRUE]
                    /\ current_hand_index' = current_hand_index + 1
              /\ ~original =>
                    /\ outcome' # "ok"
                    /\ UNCHANGED <<player_hands, dealer_hand, cards, discards,
                                   current_hand_index>>]_vars

(***************************************************************************)
(* C13.  The cursor moves on by exactly one on stand, on a double_down or  *)
(* surrender that succeeds and on a hit that busts the current hand; it    *)
(* stays on a hit that does not bust and on a split; so hit never adds a   *)
(* card to a hand that is already bust.                                    *)
(***************************************************************************)
C13_CursorAdvance ==
    [][LET i == current_hand_index + 1
       IN  /\ op' = "stand" =>
                 current_hand_index' = current_hand_index + 1
           /\ (op' \in {"double_down", "surrender"} /\ outcome' = "ok") =>
                 current_hand_index' = current_hand_index + 1
           /\ (op' = "split" /\ outcome' = "ok") =>
                 current_hand_index' = current_hand_index
           /\ (op' = "hit" /\ outcome' = "ok") =>
                 /\ ~Busted(player_hands[i])
                 /\ current_hand_index' =
                      IF Busted(player_hands'[i])
                      THEN current_hand_index + 1
                      ELSE current_hand_index]_vars

(***************************************************************************)
(* C14.  insure sets is_insured, and on the current hand only, when the    *)
(* dealer holds two cards with an Ace up and has not played; called right  *)
(* after the dealer has played, or with another upcard, or before the deal,*)
(* it fails and sets no flag on any hand.                                  *)
(***************************************************************************)
C14_InsureOnlyBeforeDealerPlay ==
    [][(HasCurrentHand /\ op' = "insure") =>
          LET i == current_hand_index + 1
              offered == /\ Len(dealer_hand.cards) = 2
                         /\ dealer_hand.cards[1].rank = "A"
                         /\ op # "play_dealer_hand"
          IN  /\ outcome' = "ok" =>
                    player_hands' =
                        [player_hands EXCEPT ![i].is_insured = TRUE]
              /\ ~offered =>
                    /\ outcome' # "ok"
                    /\ UNCHANGED player_hands]_vars

(***************************************************************************)
(* C15.  place_bet(amount) in a round sets the bet of the first hand to    *)
(* amount when min_bet <= amount <= max_bet; with any other amount it      *)
(* fails and the bet stays; either way nothing else of the round changes.  *)
(***************************************************************************)
C15_PlaceBet ==
    [][(player_hands # <<>> /\ op' = "place_bet") =>
          /\ IF rules.min_bet <= arg' /\ arg' <= rules.max_bet
             THEN /\ outcome' = "ok"
                  /\ player_hands' = [player_hands EXCEPT ![1].bet = arg']
             ELSE /\ outcome' # "ok"
                  /\ UNCHANGED player_hands
          /\ UNCHANGED <<cards, discards, cut_card_position, dealer_hand,
                         current_hand_index, rules>>]_vars

\* a bet of max_bet has just been accepted over one of min_bet
C15_Witness ==
    /\ op = "place_bet" /\ outcome = "ok"
    /\ arg = rules.max_bet
    /\ player_hands[1].bet = rules.max_bet
    /\ Len(player_hands[1].cards) = 2

(***************************************************************************)
(* C16.  From the first new_round on there are at least 1 and at most      *)
(* max_splits + 1 player hands; new_round leaves exactly 1, a split that   *)
(* succeeds adds exactly 1, and no other step changes their number.        *)
(***************************************************************************)
C16_HandCount ==
    [][/\ rounds' >= 1 =>
            /\ Len(player_hands') >= 1
            /\ Len(player_hands') <= rules.max_splits + 1
       /\ op' = "new_round" => Len(player_hands') = 1
       /\ (op' = "split" /\ outcome' = "ok") =>
            Len(player_hands') = Len(player_hands) + 1
       /\ ~(op' = "new_round" \/ (op' = "split" /\ outcome' = "ok")) =>
            Len(player_hands') = Len(player_hands)]_vars

\* after a split, the second of the two hands has been hit
C16_Witness ==
    /\ Len(player_hands) = 2
    /\ current_hand_index = 1
    /\ op = "hit" /\ outcome = "ok"
    /\ Len(player_hands[2].cards) = 3

(***************************************************************************)
(* C17.  A round operation that fails (place_bet, deal_initial_cards, hit, *)
(* double_down, split, surrender, insure, whether refused or out of        *)
(* cards) leaves the shoe, the discards, every hand and the cursor exactly *)
(* as they were before the call.                                           *)
(***************************************************************************)
RoundOperations ==
    {"place_bet", "deal_initial_cards", "hit", "double_down", "split",
     "surrender", "insure"}

C17_FailureChangesNothing ==
    [][(op' \in RoundOperations /\ outcome' # "ok") =>
          UNCHANGED <<cards, discards, player_hands, dealer_hand,
                      current_hand_index>>]_vars

(***************************************************************************)
(* C18.  When every round begins with new_round, no operation ever asks    *)
(* an empty shoe for a card: deal_card never raises.                       *)
(***************************************************************************)
C18_ShoeNeverExhausted == rounds >= 1 => outcome # "Exception"

C20_CutCardFollowsPenetration ==
    cut_card_position =
        (52 * rules.num_decks * (100 - rules.penetration)) \div 100

(***************************************************************************)
(* What the claims about the strategy speak of.                            *)
(***************************************************************************)
\* get_action has just answered ret about player_hands[1] and the upcard
AskedAction == op = "get_action" /\ outcome = "ok"

AskedCorrect == op = "is_correct_action" /\ outcome = "ok"

AskedHand == player_hands[1]

\* the value of the dealer's upcard: 2 to 10, and 11 for the Ace
UpcardValue ==
    LET r == dealer_hand.cards[1].rank
    IN  IF r = "A" THEN 11 ELSE IF r \in {"10", "J", "Q", "K"} THEN 10
        ELSE RankInt(r)

AllPermitted ==
    [can_double |-> TRUE, can_split |-> TRUE, can_surrender |-> TRUE]

\* two cards of the same rank
PairOf(h) == Len(h.cards) = 2 /\ h.cards[1].rank = h.cards[2].rank

HardTotal(h, t) == BestTotal(h.cards) = t /\ ~AceAsEleven(h.cards)

\* the entry of the hard or soft table that get_action looks up
TableEntry ==
    IF IsSoft(AskedHand) /\ Value(AskedHand) <= 21
    THEN Lookup(SoftStrategy(rules.dealer_hits_soft_17), Value(AskedHand),
                UpcardValue, STAND)
    ELSE Lookup(HardStrategy(rules.dealer_hits_soft_17), Value(AskedHand),
                UpcardValue, STAND)

(***************************************************************************)
(* C21.  With the default rules (dealer stands on soft 17, surrender       *)
(* allowed) and every permission flag true, get_action answers Split for   *)
(* the pair 8,8 and for the pair A,A against every upcard, with            *)
(* double-after-split on or off.                                           *)
(***************************************************************************)
C21_AlwaysSplitEightsAndAces ==
    (/\ AskedAction
     /\ arg = AllPermitted
     /\ ~rules.dealer_hits_soft_17 /\ rules.can_surrender
     /\ RanksOf(AskedHand) \in {<<"8", "8">>, <<"A", "A">>})
    => ret = SPLIT

C24_ResolvedAndPermitted ==
    AskedAction =>
        /\ ret \in {HIT, STAND, DOUBLE, SPLIT, SURRENDER}
        /\ ret = DOUBLE => arg.can_double
        /\ ret = SPLIT => arg.can_split /\ PairOf(AskedHand)
        /\ ret = SURRENDER => arg.can_surrender

\* an entry Double-or-Stand has been answered Stand for want of can_double
C24_Witness ==
    /\ AskedAction /\ ret = STAND /\ ~arg.can_double
    /\ TableEntry = DOUBLE_OR_STAND

(***************************************************************************)
(* C25.  Where the table entry of the hand and upcard is Double-or-Hit,    *)
(* is_correct_action accepts Double and accepts Hit; where it is           *)
(* Double-or-Stand, it accepts Double and accepts Stand; whatever the      *)
(* permission flags passed.                                                *)
(***************************************************************************)
C25_ConditionalAcceptsBoth ==
    AskedCorrect =>
        /\ (TableEntry = DOUBLE_OR_HIT /\ arg.player_action \in {DOUBLE, HIT})
              => ret = "True"
        /\ (TableEntry = DOUBLE_OR_STAND
               /\ arg.player_action \in {DOUBLE, STAND})
              => ret = "True"

(***************************************************************************)
(* C26.  With double-after-split on, doubling and splitting permitted and  *)
(* surrender not, get_action answers for every pair against every upcard   *)
(* the action of the printed PAIRS chart (a pair of ten-valued cards of    *)
(* one rank reads the row 10,10).                                          *)
(***************************************************************************)
C26_PairsAsCharted ==
    (/\ AskedAction
     /\ rules.can_double_after_split
     /\ arg = [can_double |-> TRUE, can_split |-> TRUE,
               can_surrender |-> FALSE]
     /\ PairOf(AskedHand))
    => LET r == AskedHand.cards[1].rank
           row == IF r \in {"J", "Q", "K"} THEN "10" ELSE r
       IN  ret = PairsChart[row][UpcardValue - 1]

\* play_round has returned
RoundEnded == op = "play_round"

(***************************************************************************)
(* C27.  In the full game simulator, whenever a round has ended, whatever  *)
(* the player chose, every card dealt since the last shuffle has been      *)
(* counted once: cards_seen is the number of discards and running_count    *)
(* the sum of their Hi-Lo values.                                          *)
(***************************************************************************)
C27_EveryCardCounted ==
    RoundEnded =>
        /\ cards_seen = Len(discards)
        /\ running_count = HiLoSum(discards)

\* the last call was should_deviate_from_basic_strategy
AskedDeviation == op = "should_deviate"

\* the true count passed to the last call is n or more
TrueCountAtLeast(n) == AtMost(Whole(n), arg.true_count)

TenValued(card) == card.rank \in {"10", "J", "Q", "K"}

(***************************************************************************)
(* C28.  For every true count, fractional and negative ones included,      *)
(* should_deviate_from_basic_strategy answers Stand for a hard 16 against  *)
(* 10 exactly when the true count is >= 0, for a hard 15 against 10        *)
(* exactly when it is >= 4, and for a 13 against 2 exactly when it is      *)
(* >= -1.                                                                  *)
(***************************************************************************)
C28_StandThresholds ==
    AskedDeviation =>
        /\ (arg.player_total = 16 /\ arg.dealer_upcard = 10 /\ ~arg.is_soft)
              => (ret = "STAND" <=> TrueCountAtLeast(0))
        /\ (arg.player_total = 15 /\ arg.dealer_upcard = 10 /\ ~arg.is_soft)
              => (ret = "STAND" <=> TrueCountAtLeast(4))
        /\ (arg.player_total = 13 /\ arg.dealer_upcard = 2)
              => (ret = "STAND" <=> TrueCountAtLeast(-1))

(***************************************************************************)
(* C29.  should_deviate_from_basic_strategy answers Split only for a hand  *)
(* of exactly two ten-valued cards, against a dealer 5 at a true count     *)
(* >= 5 or a dealer 6 at a true count >= 4: never for a soft 20 or a 20 of *)
(* three cards or more.                                                    *)
(***************************************************************************)
C29_SplitOnlyTens ==
    (AskedDeviation /\ ret = "SPLIT") =>
        /\ Len(player_hands[1].cards) = 2
        /\ \A i \in 1..2 : TenValued(player_hands[1].cards[i])
        /\ \/ arg.dealer_upcard = 5 /\ TrueCountAtLeast(5)
           \/ arg.dealer_upcard = 6 /\ TrueCountAtLeast(4)

(***************************************************************************)
(* C30.  For every bankroll, risk fraction, true count and                 *)
(* min_bet <= max_bet, kelly_criterion_bet returns an amount from min_bet  *)
(* to max_bet, and min_bet itself when the true count is <= 0.             *)
(***************************************************************************)
C30_KellyWithinLimits ==
    (op = "kelly_criterion_bet" /\ arg.min_bet <= arg.strategy.max_bet) =>
        /\ arg.min_bet <= ret /\ ret <= arg.strategy.max_bet
        /\ AtMost(arg.true_count, Whole(0)) => ret = arg.min_bet

\* the unit multiple of the bucket of a true count: floor(tc) <= 1 is one
\* unit, 2 is two, 3 is four, 4 is six, 5 and more is eight
BucketUnits(true_count) ==
    LET tc == FloorOf(true_count)
    IN  IF tc <= 1 THEN 1 ELSE IF tc = 2 THEN 2 ELSE IF tc = 3 THEN 4
        ELSE IF tc = 4 THEN 6 ELSE 8

Clamp(x, lo, hi) == IF x < lo THEN lo ELSE IF x > hi THEN hi ELSE x

Min(a, b) == IF a <= b THEN a ELSE b

(***************************************************************************)
(* C31.  For every true count and every spread >= 1, simple_spread_bet     *)
(* returns min_bet times the unit multiple of the true count's bucket (the *)
(* multiple itself or the multiple capped at spread), clamped to           *)
(* [min_bet, max_bet], and never more than spread times min_bet.           *)
(***************************************************************************)
C31_SpreadBet ==
    (op = "simple_spread_bet" /\ arg.min_bet <= arg.strategy.max_bet) =>
        LET units == BucketUnits(arg.true_count)
            lo == arg.min_bet
            hi == arg.strategy.max_bet
        IN  /\ ret \in {Clamp(lo * units, lo, hi),
                        Clamp(lo * Min(units, arg.spread), lo, hi)}
            /\ ret <= arg.spread * arg.min_bet

(***************************************************************************)
(* C32.  In the Speed Challenge, once single_card_drill(52) has dealt and  *)
(* counted its 52 cards from the freshly reset shoe, the running count is  *)
(* 0.                                                                      *)
(***************************************************************************)
C32_SpeedChallengeBalanced ==
    (op = "single_card_drill" /\ outcome = "ok") => running_count = 0

(***************************************************************************)
(* C33.  No game exists, and so none runs, whose rules have                *)
(* min_bet > max_bet: such rules are rejected at construction.             *)
(***************************************************************************)
C33_BetLimitsInOrder == rules.min_bet <= rules.max_bet

(***************************************************************************)
(* C34.  A round only moves forward: the dealer draws a card only when     *)
(* every player hand is decided (is_round_complete), and once              *)
(* play_dealer_hand has returned no call but new_round changes a player    *)
(* hand (its cards, bet or flags) or the number of hands.                  *)
(***************************************************************************)
C34_RoundMovesForward ==
    [][ /\ (pc = "dealer" /\ dealer_hand'.cards # dealer_hand.cards)
           => IsRoundComplete
        /\ (DealerReturned /\ op' # "new_round")
           => player_hands' = player_hands ]_vars

\* the entry a hand has in the soft table when its total counts an Ace as 11
\* and in the hard table otherwise, resolved by can_double
EntryBySoftness(h, can_double) ==
    Conditional(
        Lookup(IF AceAsEleven(h.cards)
               THEN SoftStrategy(rules.dealer_hits_soft_17)
               ELSE HardStrategy(rules.dealer_hits_soft_17),
               BestTotal(h.cards), UpcardValue, STAND),
        can_double)

(***************************************************************************)
(* C35.  When get_action answers neither Surrender nor Split, its answer   *)
(* is the entry of the soft table for every hand whose total counts an Ace *)
(* as 11, hands of two or more Aces included, and the entry of the hard    *)
(* table for every other hand.                                             *)
(***************************************************************************)
C35_SoftTableForSoftHands ==
    (AskedAction /\ ret \notin {SURRENDER, SPLIT}) =>
        ret = EntryBySoftness(AskedHand, arg.can_double)

\* the cursor is on a hand
OnHand == current_hand_index + 1 \in 1..Len(player_hands)

(***************************************************************************)
(* C36.  A successful split leaves both resulting hands with is_split set; *)
(* in a round that holds two hands every split is refused and changes      *)
(* nothing; and a round never holds more than two player hands, whatever   *)
(* max_splits is.                                                          *)
(***************************************************************************)
C36_OneSplitPerRound ==
    [][/\ (op' = "split" /\ outcome' = "ok") =>
            /\ Len(player_hands) = 1
            /\ player_hands'[current_hand_index + 1].is_split
            /\ player_hands'[current_hand_index + 2].is_split
       /\ (op' = "split" /\ Len(player_hands) >= 2) =>
            /\ outcome' \in {"ValueError", "IndexError"}
            /\ player_hands' = player_hands
       /\ Len(player_hands') <= 2
       /\ Len(player_hands') = 2 =>
            \A i \in 1..2 : player_hands'[i].is_split]_vars

\* a split was refused on a pair that a split made, with splits to spare
C36_Witness ==
    /\ op = "split" /\ outcome = "ValueError"
    /\ Len(player_hands) = 2
    /\ OnHand /\ IsPair(CurrentHand) /\ CurrentHand.is_split
    /\ Len(player_hands) < rules.max_splits + 1

(***************************************************************************)
(* C37.  The rule flags are enforced: under rules that do not allow        *)
(* surrender no hand is ever surrendered, and under rules that do not      *)
(* allow doubling after a split no hand made by a split is ever doubled.   *)
(***************************************************************************)
C37_RuleFlagsEnforced ==
    \A i \in 1..Len(player_hands) :
        /\ ~rules.can_surrender => ~player_hands[i].is_surrendered
        /\ ~rules.can_double_after_split =>
              ~(player_hands[i].is_split /\ player_hands[i].is_doubled)

(***************************************************************************)
(* C38.  A hand made by a split is never paid the blackjack payout:        *)
(* resolve_hand returns at most +bet for it, an Ace with a ten-valued card *)
(* included.  (Amounts are in tenths.)                                     *)
(***************************************************************************)
C38_SplitHandPaidEvenMoney ==
    (Resolved /\ player_hands[arg].is_split) =>
        ret <= player_hands[arg].bet * 10

\* the same hand with is_insured the other way
Twin(h) == [h EXCEPT !.is_insured = ~h.is_insured]

\* the one case in which insurance is looked at
InsuranceMatters(h) ==
    Natural(dealer_hand) /\ ~h.is_surrendered /\ ~Busted(h) /\ ~Natural(h)

(***************************************************************************)
(* C39.  resolve_hand gives a hand and its twin, which differs in          *)
(* is_insured alone, the same amount unless the dealer has a blackjack and *)
(* the hand is neither surrendered, bust nor a blackjack; and the insured  *)
(* one of the two is never given less: no insurance stake is lost.         *)
(***************************************************************************)
C39_InsuranceOnlyAgainstBlackjack ==
    Resolved =>
        LET h == player_hands[arg]
            other == Resolve(Twin(h), dealer_hand, rules.blackjack_payout)
        IN  /\ ~InsuranceMatters(h) => ret = other
            /\ h.is_insured => ret >= other
            /\ ~h.is_insured => ret <= other

\* an insured hand that is bust is resolved against a dealer blackjack
C39_Witness ==
    /\ Resolved
    /\ player_hands[arg].is_insured /\ ~player_hands[arg].is_surrendered
    /\ Busted(player_hands[arg])
    /\ Natural(dealer_hand)
    /\ ret = -(10 * player_hands[arg].bet)

\* play_dealer_hand's loop has just dealt the dealer a card
DealerDrew == pc = "dealer" /\ dealer_hand'.cards # dealer_hand.cards

(***************************************************************************)
(* C40 as stated.  During play_dealer_hand every card the dealer draws     *)
(* either busts the dealer hand or strictly increases its total.           *)
(***************************************************************************)
C40_DrawBustsOrIncreases ==
    [][DealerDrew =>
          \/ Value(dealer_hand') > 21
          \/ Value(dealer_hand') > Value(dealer_hand)]_vars

(***************************************************************************)
(* C40 as amended.  During play_dealer_hand every card the dealer draws    *)
(* either busts the dealer hand, or strictly increases its total, or is    *)
(* drawn to a hand whose total counted an Ace as 11.                       *)
(***************************************************************************)
C40_DrawBustsIncreasesOrHardens ==
    [][DealerDrew =>
          \/ Value(dealer_hand') > 21
          \/ Value(dealer_hand') > Value(dealer_hand)
          \/ AceAsEleven(dealer_hand.cards)]_vars

\* the dealer has drawn to a soft hand and its total is lower than it was
C40_Witness ==
    /\ op = "play_dealer_hand"
    /\ Len(dealer_hand.cards) = 3
    /\ LET before == [dealer_hand EXCEPT !.cards = SubSeq(@, 1, 2)]
       IN  /\ AceAsEleven(before.cards)
           /\ Value(dealer_hand) < Value(before)
           /\ Value(dealer_hand) <= 21

====
